---- MODULE Spec2Model ----
(***************************************************************************)
(* A model of the growth calculators of pygrowup_cdc_calculator:           *)
(*   - CDCGrowthCalculator  (pygrowup_cdc_calculator/cdc_growth_calculator)*)
(*   - MedicalGrowthCalculator (medical_growth_calculator)                 *)
(*                                                                         *)
(* Units.  Ages are tenths of a month, heights and measured values tenths  *)
(* of a unit, L is in tenths, M in tenths, S in thousandths, percentiles   *)
(* in whole percent.  Python's None is the empty tuple <<>> and a present  *)
(* value v is <<v>>, for optional arguments, dictionary keys and cells.    *)
(* Floating-point results are kept as classes (finite, inf, -inf, nan,     *)
(* complex), computed by the rules of the arithmetic the code runs on.     *)
(***************************************************************************)
EXTENDS Integers, Sequences, FiniteSets, TLC

VARIABLES
    pygrowup_available, \* module flag PYGROWUP_AVAILABLE, copied by __init__
    has_bmi_for_age,    \* hasattr(obs, 'bmi_for_age') of the installed pygrowup
    cdc_available,      \* MedicalGrowthCalculator.cdc_available
    scalar,             \* what a table cell reads as: numpy.float64 or float
    data_directory,     \* CDCGrowthCalculator.data_directory: file name -> file
    data,               \* CDCGrowthCalculator.data: metric -> table
    op,                 \* the operation that just returned, or "ready"
    args,               \* its arguments
    result,             \* what it returned (or raised)
    invoked,            \* the standards it delegated to, in order
    metric_used         \* the standard's metric the name was translated to

vars == <<pygrowup_available, has_bmi_for_age, cdc_available, scalar,
          data_directory, data, op, args, result, invoked, metric_used>>

config == <<pygrowup_available, has_bmi_for_age, cdc_available, scalar,
            data_directory, data>>

settings == <<pygrowup_available, has_bmi_for_age, cdc_available, scalar,
              data_directory>>

----------------------------------------------------------------------------
(* Bounds of the model. *)

MaxBatch == 2       \* longest list given to batch_calculate
MaxTuple == 2       \* longest tuple/list of sex candidates

----------------------------------------------------------------------------
(* Python values. *)

None == <<>>
Some(v) == <<v>>
IsNone(o) == o = <<>>
Val(o) == o[1]

NotFound == [kind |-> "None"]
Raised(e) == [kind |-> "raise", error |-> e]

Abs(x) == IF x < 0 THEN -x ELSE x

----------------------------------------------------------------------------
(* Enumerations. *)

MALE == 1
FEMALE == 2
Sex == {MALE, FEMALE}

WEIGHT_FOR_AGE == "weight_for_age"
STATURE_FOR_AGE == "stature_for_age"
WEIGHT_FOR_STATURE == "weight_for_stature"
BMI_FOR_AGE == "bmi_for_age"
HEAD_CIRCUMFERENCE == "head_circumference"
GrowthMetric == {WEIGHT_FOR_AGE, STATURE_FOR_AGE, WEIGHT_FOR_STATURE,
                 BMI_FOR_AGE, HEAD_CIRCUMFERENCE}

GrowthStandard == {"WHO", "CDC", "AUTO"}

file_mappings ==
    [m \in GrowthMetric |->
        CASE m = WEIGHT_FOR_AGE -> "wtage.csv"
          [] m = STATURE_FOR_AGE -> "statage.csv"
          [] m = WEIGHT_FOR_STATURE -> "wtstat.csv"
          [] m = BMI_FOR_AGE -> "bmiagerev.csv"
          [] m = HEAD_CIRCUMFERENCE -> "hcageinf.csv"]

----------------------------------------------------------------------------
(* The data directories the calculator may be constructed on.  A file is   *)
(* absent, or has a header (cols) and rows; a cell is <<n>> when it parses  *)
(* as the number n and <<>> when it is missing or not a number.            *)

NA == <<>>
AgeRow(sex, x, l, m, s) ==
    [Sex |-> sex, Agemos |-> x, L |-> l, M |-> m, S |-> s]
HeightRow(sex, x, l, m, s) ==
    [Sex |-> sex, Height |-> x, L |-> l, M |-> m, S |-> s]
AgeCols == {"Sex", "Agemos", "L", "M", "S"}
HeightCols == {"Sex", "Height", "L", "M", "S"}
NoFile == [exists |-> FALSE, cols |-> {}, rows |-> <<>>]
File(c, r) == [exists |-> TRUE, cols |-> c, rows |-> r]

\* A complete directory, files in the order of the published charts (by sex,
\* then by age or height).  statage has a row with L = 1.0, hcageinf rows with
\* L = 0; 24.0/25.0 months and 77.0/78.0 cm leave 24.5 and 77.5 equidistant.
GoodDir ==
    [f \in {"wtage.csv", "statage.csv", "wtstat.csv", "bmiagerev.csv", "hcageinf.csv"} |->
        CASE f = "wtage.csv" -> File(AgeCols, <<
                AgeRow(<<1>>, <<240>>, <<-2>>, <<126>>, <<108>>),
                AgeRow(<<1>>, <<250>>, <<-3>>, <<128>>, <<109>>),
                AgeRow(<<1>>, <<1200>>, <<-13>>, <<318>>, <<150>>),
                AgeRow(<<2>>, <<240>>, <<-7>>, <<120>>, <<110>>),
                AgeRow(<<2>>, <<1200>>, <<-11>>, <<329>>, <<160>> ) >>)
          [] f = "statage.csv" -> File(AgeCols, <<
                AgeRow(<<1>>, <<240>>, <<10>>, <<865>>, <<40>>),
                AgeRow(<<1>>, <<600>>, <<12>>, <<1090>>, <<42>>),
                AgeRow(<<2>>, <<240>>, <<11>>, <<850>>, <<41>>),
                AgeRow(<<2>>, <<600>>, <<-5>>, <<1080>>, <<43>> ) >>)
          [] f = "wtstat.csv" -> File(HeightCols, <<
                HeightRow(<<1>>, <<770>>, <<-4>>, <<102>>, <<80>>),
                HeightRow(<<1>>, <<780>>, <<-5>>, <<104>>, <<81>>),
                HeightRow(<<2>>, <<770>>, <<-6>>, <<100>>, <<82>>),
                HeightRow(<<2>>, <<780>>, <<-7>>, <<103>>, <<83>> ) >>)
          [] f = "bmiagerev.csv" -> File(AgeCols, <<
                AgeRow(<<1>>, <<240>>, <<-20>>, <<165>>, <<80>>),
                AgeRow(<<1>>, <<1200>>, <<-25>>, <<166>>, <<180>>),
                AgeRow(NA, NA, NA, NA, NA),
                AgeRow(<<2>>, <<240>>, <<-10>>, <<164>>, <<85>>),
                AgeRow(<<2>>, <<1200>>, <<-22>>, <<167>>, <<130>> ) >>)
          [] f = "hcageinf.csv" -> File(AgeCols, <<
                AgeRow(<<1>>, <<0>>, <<0>>, <<357>>, <<35>>),
                AgeRow(<<1>>, <<360>>, <<0>>, <<497>>, <<30>>),
                AgeRow(<<2>>, <<0>>, <<0>>, <<349>>, <<36>>),
                AgeRow(<<2>>, <<360>>, <<45>>, <<485>>, <<31>> ) >>)]

\* A damaged directory: wtage.csv is absent, statage.csv has no S column,
\* wtstat.csv is not in coordinate order and has male rows only, bmiagerev.csv
\* has unparsable cells, a row of sex code 3 and rows with M = 0 and M < 0,
\* hcageinf.csv has a row with S = 0.
DamagedDir ==
    [f \in {"wtage.csv", "statage.csv", "wtstat.csv", "bmiagerev.csv", "hcageinf.csv"} |->
        CASE f = "wtage.csv" -> NoFile
          [] f = "statage.csv" -> File({"Sex", "Agemos", "L", "M"}, <<
                [Sex |-> <<1>>, Agemos |-> <<240>>, L |-> <<10>>, M |-> <<865>>] >>)
          [] f = "wtstat.csv" -> File(HeightCols, <<
                HeightRow(<<1>>, <<780>>, <<-5>>, <<104>>, <<81>>),
                HeightRow(<<1>>, <<770>>, <<-4>>, <<102>>, <<80>>),
                HeightRow(<<1>>, <<775>>, NA, <<103>>, <<80>>),
                HeightRow(<<1>>, <<760>>, <<10>>, <<100>>, <<79>> ) >>)
          [] f = "bmiagerev.csv" -> File(AgeCols, <<
                AgeRow(<<1>>, <<240>>, <<-20>>, <<0>>, <<80>>),
                AgeRow(<<1>>, <<600>>, <<5>>, <<-155>>, <<90>>),
                AgeRow(<<1>>, <<1200>>, <<10>>, <<-166>>, <<120>>),
                AgeRow(<<3>>, <<240>>, <<-20>>, <<165>>, <<80>>),
                AgeRow(<<2>>, NA, <<-10>>, <<164>>, <<85>>),
                AgeRow(<<2>>, <<600>>, <<0>>, <<0>>, <<85>>),
                AgeRow(<<2>>, <<1200>>, <<0>>, <<-167>>, <<130>> ) >>)
          [] f = "hcageinf.csv" -> File(AgeCols, <<
                AgeRow(<<1>>, <<0>>, <<0>>, <<357>>, <<0>>),
                AgeRow(<<1>>, <<360>>, <<10>>, <<497>>, <<0>>),
                AgeRow(<<2>>, <<0>>, <<0>>, <<349>>, <<36>> ) >>)]

\* The complete directory with a bmiagerev.csv that has no L column.
PartialDir ==
    [GoodDir EXCEPT !["bmiagerev.csv"] =
        File({"Sex", "Agemos", "M", "S"}, <<
            [Sex |-> <<1>>, Agemos |-> <<240>>, M |-> <<165>>, S |-> <<80>>],
            [Sex |-> <<2>>, Agemos |-> <<240>>, M |-> <<164>>, S |-> <<85>>] >>)]

DataDirectories == {GoodDir, DamagedDir, PartialDir}

----------------------------------------------------------------------------
(* CDCGrowthCalculator._load_growth_data *)

EmptyFrame == <<>>

\* df.rename(columns={'Height': 'Agemos'})
RenameHeight(file) ==
    IF "Height" \in file.cols /\ "Agemos" \notin file.cols
    THEN [file EXCEPT
            !.cols = (file.cols \ {"Height"}) \cup {"Agemos"},
            !.rows = [i \in 1..Len(file.rows) |->
                        [c \in (file.cols \ {"Height"}) \cup {"Agemos"} |->
                            IF c = "Agemos" THEN file.rows[i]["Height"]
                            ELSE file.rows[i][c]]]]
    ELSE file

required_cols == {"Sex", "Agemos", "L", "M", "S"}

\* dropna(subset=required_cols), after pd.to_numeric(errors='coerce')
AllNumeric(row) == \A c \in required_cols : ~IsNone(row[c])

\* The frame of one metric as _load_growth_data leaves it in self.data.
LoadTable(metric, dir) ==
    LET raw == dir[file_mappings[metric]] IN
    IF ~raw.exists THEN EmptyFrame                      \* read_csv raises
    ELSE
    LET df1 == IF metric = WEIGHT_FOR_STATURE THEN RenameHeight(raw) ELSE raw
        BmiSex(row) == ~IsNone(row["Sex"]) /\ Val(row["Sex"]) \in {1, 2}
        bmiRaises == metric = BMI_FOR_AGE /\ ~(required_cols \subseteq df1.cols)
        df2 == IF metric = BMI_FOR_AGE /\ ~bmiRaises
               THEN [df1 EXCEPT !.rows = SelectSeq(SelectSeq(df1.rows, BmiSex), AllNumeric)]
               ELSE df1
        missing_cols == required_cols \ df2.cols
    IN  IF bmiRaises THEN EmptyFrame                    \* KeyError, caught
        ELSE IF missing_cols # {} THEN EmptyFrame
        ELSE LET kept == SelectSeq(df2.rows, AllNumeric) IN
             [i \in 1..Len(kept) |->
                [Sex |-> Val(kept[i]["Sex"]), Agemos |-> Val(kept[i]["Agemos"]),
                 L |-> Val(kept[i]["L"]), M |-> Val(kept[i]["M"]),
                 S |-> Val(kept[i]["S"])]]

\* The order the loop of _load_growth_data takes the metrics in.
MetricOrder ==
    <<WEIGHT_FOR_AGE, STATURE_FOR_AGE, WEIGHT_FOR_STATURE, BMI_FOR_AGE,
      HEAD_CIRCUMFERENCE>>

\* The body of the loop raises for the metric (and the except clause stores an
\* empty frame): the file cannot be read, or the BMI clean-up meets a column
\* that is not there.
LoadRaises(metric, dir) ==
    LET raw == dir[file_mappings[metric]] IN
    \/ ~raw.exists
    \/ metric = BMI_FOR_AGE /\ ~(required_cols \subseteq raw.cols)

\* self.data after the passes of the loop from the i-th metric on, acc being
\* self.data before them.
RECURSIVE LoadFrom(_, _, _)
LoadFrom(dir, i, acc) ==
    IF i > Len(MetricOrder) THEN acc
    ELSE LoadFrom(dir, i + 1,
                  [m \in DOMAIN acc \cup {MetricOrder[i]} |->
                      IF m = MetricOrder[i] THEN LoadTable(m, dir) ELSE acc[m]])

\* LoadGrowthData with the loop left at the first metric whose pass raises, the
\* metrics from it on being left empty.
LoadGrowthDataAborting(dir) ==
    LET Position(m) == CHOOSE i \in 1..Len(MetricOrder) : MetricOrder[i] = m IN
    [m \in GrowthMetric |->
        IF \E j \in 1..Position(m) : LoadRaises(MetricOrder[j], dir)
        THEN EmptyFrame ELSE LoadTable(m, dir)]

\* CDCGrowthCalculator.__init__: self.data = {}, then _load_growth_data.
LoadGrowthData(dir) == LoadFrom(dir, 1, [m \in {} |-> EmptyFrame])

----------------------------------------------------------------------------
(* CDCGrowthCalculator._get_lms_parameters *)

\* The rows of the requested sex, in table order: df[df['Sex'] == sex.value]
SexData(df, sex) == LET IsSex(row) == row.Sex = sex IN SelectSeq(df, IsSex)

\* IdxMin taking the last position of the least absolute difference.
IdxMinLast(sex_data, x) ==
    CHOOSE i \in 1..Len(sex_data) :
        /\ \A j \in 1..Len(sex_data) :
              Abs(sex_data[i].Agemos - x) <= Abs(sex_data[j].Agemos - x)
        /\ \A j \in (i + 1)..Len(sex_data) :
              Abs(sex_data[j].Agemos - x) > Abs(sex_data[i].Agemos - x)

\* (sex_data['Agemos'] - x).abs().idxmin(): the first position of the least
\* absolute difference.
IdxMin(sex_data, x) ==
    CHOOSE i \in 1..Len(sex_data) :
        /\ \A j \in 1..Len(sex_data) :
              Abs(sex_data[i].Agemos - x) <= Abs(sex_data[j].Agemos - x)
        /\ \A j \in 1..(i - 1) :
              Abs(sex_data[j].Agemos - x) > Abs(sex_data[i].Agemos - x)

\* Coordinate with the age taken for every metric.
CoordinateByAge(metric, age_months, height_cm) == age_months

\* The coordinate the row is looked up by.
Coordinate(metric, age_months, height_cm) ==
    IF metric = WEIGHT_FOR_STATURE THEN height_cm ELSE age_months

\* Returns [kind |-> "lms", L, M, S], NotFound, or Raised("TypeError") when the
\* age is None (a Series minus None).
GetLmsParameters(tables, metric, sex, age_months, height_cm) ==
    IF metric \notin DOMAIN tables \/ tables[metric] = EmptyFrame THEN NotFound
    ELSE
    LET sex_data == SexData(tables[metric], sex) IN
    IF sex_data = <<>> THEN NotFound
    ELSE IF metric = WEIGHT_FOR_STATURE /\ IsNone(height_cm) THEN NotFound
    ELSE IF IsNone(Coordinate(metric, age_months, height_cm)) THEN Raised("TypeError")
    ELSE LET row == sex_data[IdxMin(sex_data, Val(Coordinate(metric, age_months, height_cm)))]
         IN  [kind |-> "lms", L |-> row.L, M |-> row.M, S |-> row.S]

\* TablesAfterLookup with the rows of the sex stored back in place of the table.
TablesAfterLookupInPlace(tables, metric, sex) ==
    IF metric \notin DOMAIN tables \/ tables[metric] = EmptyFrame THEN tables
    ELSE [tables EXCEPT ![metric] = SexData(tables[metric], sex)]

\* self.data when _get_lms_parameters returns: the rows of the sex are a copy
\* (line 128), the row is read, nothing is assigned to self.data.
TablesAfterLookup(tables, metric, sex) == tables

----------------------------------------------------------------------------
(* Floating-point arithmetic by class.  A real number is "neg", "zero" or   *)
(* "pos"; the other classes are "inf", "-inf", "nan", "complex" (a Python   *)
(* complex number) and "error" (the operation raised).  A table cell read   *)
(* through DataFrame.loc is a numpy.float64 ("numpy": division by zero and  *)
(* invalid powers give inf or nan) or, where the row is of dtype object, a  *)
(* Python float ("python": they raise, and a negative base to a fractional  *)
(* power is complex).                                                       *)

Sgn(n) == IF n < 0 THEN -1 ELSE IF n = 0 THEN 0 ELSE 1
ClassOf(s) == IF s < 0 THEN "neg" ELSE IF s = 0 THEN "zero" ELSE "pos"
Flip(c) ==
    CASE c = "neg" -> "pos" [] c = "pos" -> "neg"
      [] c = "inf" -> "-inf" [] c = "-inf" -> "inf"
      [] OTHER -> c
Signed(c, s) == IF s < 0 THEN Flip(c) ELSE c
IsIntegral(L) == L % 10 = 0
IsOdd(L) == (L \div 10) % 2 = 1

\* value / M
Quotient(value, M, mode) ==
    IF M = 0
    THEN IF mode = "python" THEN "error"              \* ZeroDivisionError
         ELSE CASE value > 0 -> "inf" [] value = 0 -> "nan" [] value < 0 -> "-inf"
    ELSE ClassOf(Sgn(value) * Sgn(M))

\* base ** e for an exponent e # 0 that is positive or not, integral or
\* not, odd or not
PowerBy(x, positive, integral, odd, mode) ==
    CASE x = "pos" -> "pos"
      [] x = "zero" -> IF positive THEN "zero"
                       ELSE IF mode = "python" THEN "error" ELSE "inf"
      [] x = "neg" -> IF integral THEN (IF odd THEN "neg" ELSE "pos")
                      ELSE IF mode = "python" THEN "complex" ELSE "nan"
      [] x = "inf" -> IF positive THEN "inf" ELSE "zero"
      [] x = "-inf" -> IF ~positive THEN "zero"
                       ELSE IF integral /\ odd THEN "-inf" ELSE "inf"
      [] OTHER -> x                                     \* nan, error

\* x ** L for L # 0, where x = value / M
Power(x, L, mode) == PowerBy(x, L > 0, IsIntegral(L), IsOdd(L), mode)

\* p - 1 for p = (value / M) ** L: a positive power is compared with 1 through
\* |value| against |M| and the sign of L.
MinusOne(p, value, L, M) ==
    CASE p = "pos" -> ClassOf(Sgn(Abs(value) - Abs(M)) * Sgn(L))
      [] p = "zero" -> "neg"
      [] OTHER -> p

\* n / d for a finite d of sign sd, whose zero has the sign zs
DivideBy(n, sd, zs, mode) ==
    IF n \in {"error", "nan"} THEN n
    ELSE IF sd # 0 THEN Signed(n, sd)
    ELSE IF mode = "python" THEN "error"                \* ZeroDivisionError
    ELSE CASE n = "zero" -> "nan"
           [] n \in {"pos", "inf"} -> Signed("inf", zs)
           [] n \in {"neg", "-inf"} -> Signed("-inf", zs)

\* math.log(value / M)
Log(x, value, M) ==
    CASE x = "pos" -> ClassOf(Sgn(Abs(value) - Abs(M)))
      [] x \in {"inf", "nan"} -> x
      [] OTHER -> "error"                               \* ValueError, or x raised

\* The z-score of calculate_growth_percentile, lines 169-172.
ZScore(value, L, M, S, mode) ==
    IF L # 0
    THEN DivideBy(MinusOne(Power(Quotient(value, M, mode), L, mode), value, L, M),
                  Sgn(L) * Sgn(S), Sgn(L), mode)
    ELSE DivideBy(Log(Quotient(value, M, mode), value, M), Sgn(S), 1, mode)

\* round(stats.norm.cdf(z_score) * 100, 2), by class
Percentile(z) ==
    CASE z = "neg" -> "[0,50)"
      [] z = "zero" -> "50"
      [] z = "pos" -> "(50,100]"
      [] z = "inf" -> "100"
      [] z = "-inf" -> "0"
      [] OTHER -> z                                     \* nan, complex

GrowthResult(pc, z, M, metric, age_months, height_cm) ==
    [kind |-> "GrowthResult", percentile |-> pc, z_score |-> z,
     reference_value |-> M, metric |-> metric,
     age_months |-> age_months, height_cm |-> height_cm]

\* What calculate_growth_percentile may return.  The normal CDF of a complex
\* z-score either raises (caught: None) or yields a complex percentile.
GrowthPercentile(tables, mode, metric, sex, value, age_months, height_cm) ==
    LET lms == GetLmsParameters(tables, metric, sex, age_months, height_cm) IN
    IF lms.kind # "lms" THEN {NotFound}
    ELSE LET z == ZScore(value, lms.L, lms.M, lms.S, mode)
             res == GrowthResult(Percentile(z), z, lms.M, metric, age_months, height_cm)
         IN  CASE z = "error" -> {NotFound}
               [] z = "complex" -> {NotFound, res}
               [] OTHER -> {res}

----------------------------------------------------------------------------
(* Sex inputs of MedicalGrowthCalculator.  A Python string is the tuple of  *)
(* its characters; the other values are tagged.                             *)

PyStrOf(cs) == [t |-> "str", s |-> cs]
PyInt(n) == [t |-> "int", n |-> n]
PyNone == [t |-> "none"]
PyTuple(items) == [t |-> "tuple", items |-> items]
PyList(items) == [t |-> "list", items |-> items]

UpperCase == <<"A","B","C","D","E","F","G","H","I","J","K","L","M",
               "N","O","P","Q","R","S","T","U","V","W","X","Y","Z">>
LowerCase == <<"a","b","c","d","e","f","g","h","i","j","k","l","m",
               "n","o","p","q","r","s","t","u","v","w","x","y","z">>
DigitChar == <<"0","1","2","3","4","5","6","7","8","9">>
Whitespace == {" ", "\t", "\n"}

\* str.lower()
LowerChar(c) ==
    IF \E i \in 1..26 : UpperCase[i] = c
    THEN LowerCase[CHOOSE i \in 1..26 : UpperCase[i] = c] ELSE c
Lower(cs) == [i \in 1..Len(cs) |-> LowerChar(cs[i])]

\* str.strip()
RECURSIVE LStrip(_)
LStrip(cs) == IF cs # <<>> /\ Head(cs) \in Whitespace THEN LStrip(Tail(cs)) ELSE cs
RECURSIVE RStrip(_)
RStrip(cs) ==
    IF cs # <<>> /\ cs[Len(cs)] \in Whitespace
    THEN RStrip(SubSeq(cs, 1, Len(cs) - 1)) ELSE cs
Strip(cs) == RStrip(LStrip(cs))

RECURSIVE Digits(_)
Digits(n) ==
    IF n < 0 THEN <<"-">> \o Digits(-n)
    ELSE IF n < 10 THEN <<DigitChar[n + 1]>>
    ELSE Digits(n \div 10) \o <<DigitChar[(n % 10) + 1]>>

\* repr() of the scalars a container holds
Repr(v) ==
    CASE v.t = "str" -> <<"'">> \o v.s \o <<"'">>
      [] v.t = "int" -> Digits(v.n)
      [] v.t = "none" -> <<"N","o","n","e">>
RECURSIVE ReprItems(_)
ReprItems(items) ==
    IF items = <<>> THEN <<>>
    ELSE IF Len(items) = 1 THEN Repr(items[1])
    ELSE Repr(items[1]) \o <<",", " ">> \o ReprItems(Tail(items))

\* str()
PyStr(v) ==
    CASE v.t = "str" -> v.s
      [] v.t = "int" -> Digits(v.n)
      [] v.t = "none" -> <<"N","o","n","e">>
      [] v.t = "list" -> <<"[">> \o ReprItems(v.items) \o <<"]">>
      [] v.t = "tuple" -> <<"(">> \o ReprItems(v.items)
                            \o (IF Len(v.items) = 1 THEN <<",">> ELSE <<>>) \o <<")">>

\* bool()
Truthy(v) ==
    CASE v.t = "str" -> v.s # <<>>
      [] v.t = "int" -> v.n # 0
      [] v.t = "none" -> FALSE
      [] v.t \in {"list", "tuple"} -> v.items # <<>>

male_variants ==
    { <<"m","a","l","e">>, <<"m">>, <<"b","o","y">>,
      <<"m","a","s","c","u","l","i","n","e">>, <<"1">> }
female_variants ==
    { <<"f","e","m","a","l","e">>, <<"f">>, <<"g","i","r","l">>,
      <<"f","e","m","i","n","i","n","e">>, <<"2">> }

\* NormalizeSexInput with an unmatched input taken as male.
NormalizeSexInputDefaulting(sex) ==
    LET Usable(item) == Truthy(item) /\ Strip(PyStr(item)) # <<>>
        found == sex.t = "tuple" /\ \E i \in 1..Len(sex.items) : Usable(sex.items[i])
        first == CHOOSE i \in 1..Len(sex.items) :
                    /\ Usable(sex.items[i])
                    /\ \A j \in 1..(i - 1) : ~Usable(sex.items[j])
        picked == IF sex.t = "tuple" THEN PyStrOf(Strip(PyStr(sex.items[first]))) ELSE sex
        sex_str == Lower(Strip(PyStr(picked)))
    IN  IF sex.t = "tuple" /\ ~found THEN None
        ELSE IF sex_str \in female_variants THEN Some("female")
        ELSE Some("male")

\* MedicalGrowthCalculator._normalize_sex_input: Some("male"), Some("female")
\* or None.
NormalizeSexInput(sex) ==
    LET Usable(item) == Truthy(item) /\ Strip(PyStr(item)) # <<>>
        found == sex.t = "tuple" /\ \E i \in 1..Len(sex.items) : Usable(sex.items[i])
        first == CHOOSE i \in 1..Len(sex.items) :
                    /\ Usable(sex.items[i])
                    /\ \A j \in 1..(i - 1) : ~Usable(sex.items[j])
        picked == IF sex.t = "tuple" THEN PyStrOf(Strip(PyStr(sex.items[first]))) ELSE sex
        sex_str == Lower(Strip(PyStr(picked)))
    IN  IF sex.t = "tuple" /\ ~found THEN None
        ELSE IF sex_str \in male_variants THEN Some("male")
        ELSE IF sex_str \in female_variants THEN Some("female")
        ELSE None

----------------------------------------------------------------------------
(* CDCGrowthCalculator.calculate_value_for_percentile *)

\* stats.norm.ppf(percentile / 100) in hundredths, for the percentiles asked
Ppf(percentile) ==
    CASE percentile = 1 -> -233
      [] percentile = 50 -> 0
      [] percentile = 99 -> 233

\* a * b by class, for a finite a of sign sa
Times(sa, b) ==
    IF sa # 0 THEN Signed(b, sa)
    ELSE IF b \in {"neg", "zero", "pos"} THEN "zero" ELSE "nan"

\* What calculate_value_for_percentile returns: the class of the rounded
\* value, or NotFound.  stats.norm.ppf returns a numpy.float64, so the power
\* and the products follow numpy's rules whatever the cells read as.
ValueForPercentile(tables, metric, sex, percentile, age_months, height_cm) ==
    LET lms == GetLmsParameters(tables, metric, sex, age_months, height_cm) IN
    IF lms.kind # "lms" THEN NotFound
    ELSE
    LET L == lms.L
        M == lms.M
        S == lms.S
        z == IF percentile < 0 \/ percentile > 100 THEN "nan"
             ELSE IF percentile = 0 THEN "-inf"
             ELSE IF percentile = 100 THEN "inf"
             ELSE ClassOf(Sgn(Ppf(percentile)))
        finite == z \in {"neg", "zero", "pos"}
        \* L * S * z + 1
        base == IF finite THEN ClassOf(Sgn(L * S * Ppf(percentile) + 1000000))
                ELSE Times(Sgn(L) * Sgn(S), z)
        \* S * z
        sz == IF finite THEN ClassOf(Sgn(S) * Sgn(Ppf(percentile)))
              ELSE Times(Sgn(S), z)
        \* math.exp(S * z)
        exp == CASE sz \in {"neg", "zero", "pos"} -> "pos"
                 [] sz = "-inf" -> "zero"
                 [] OTHER -> sz
        value == IF L # 0
                 THEN Times(Sgn(M), PowerBy(base, L > 0, 10 % Abs(L) = 0,
                                            (10 \div Abs(L)) % 2 = 1, "numpy"))
                 ELSE Times(Sgn(M), exp)
    IN  [kind |-> "float", value |-> value]

----------------------------------------------------------------------------
(* CDCGrowthCalculator.batch_calculate *)

\* A measurement is a dict: a key that is absent holds None here.
Measurement(sex, value, age_months, height_cm) ==
    [sex |-> sex, value |-> value, age_months |-> age_months, height_cm |-> height_cm]

\* What one pass of the loop may append for a measurement.
BatchItem(tables, mode, metric, m) ==
    IF IsNone(m.sex) \/ IsNone(m.value) THEN {NotFound}          \* KeyError
    ELSE IF Val(m.sex) \notin Sex THEN {NotFound}                 \* ValueError
    ELSE GrowthPercentile(tables, mode, metric, Val(m.sex), Val(m.value),
                          m.age_months, m.height_cm)

\* BatchCalculate with the loop left at the first measurement that fails.
BatchCalculateAborting(tables, mode, measurements, metric) ==
    LET Outcomes(i) == BatchItem(tables, mode, metric, measurements[i])
        all == UNION {Outcomes(i) : i \in 1..Len(measurements)}
    IN  {r \in UNION {[1..n -> all] : n \in 0..Len(measurements)} :
            /\ \A i \in 1..Len(r) : r[i] \in Outcomes(i) /\ r[i] # NotFound
            /\ Len(r) < Len(measurements) => NotFound \in Outcomes(Len(r) + 1)}

\* self.data when batch_calculate returns: a lookup for each measurement that is
\* handed to calculate_growth_percentile.
RECURSIVE TablesAfterBatch(_, _, _)
TablesAfterBatch(tables, measurements, metric) ==
    IF measurements = <<>> THEN tables
    ELSE LET m == Head(measurements)
             handed == ~IsNone(m.sex) /\ ~IsNone(m.value) /\ Val(m.sex) \in Sex
         IN  TablesAfterBatch(IF handed THEN TablesAfterLookup(tables, metric, Val(m.sex))
                              ELSE tables,
                              Tail(measurements), metric)

\* The lists batch_calculate may return.
BatchCalculate(tables, mode, measurements, metric) ==
    LET Outcomes(i) == BatchItem(tables, mode, metric, measurements[i])
        all == UNION {Outcomes(i) : i \in 1..Len(measurements)}
    IN  {r \in [1..Len(measurements) -> all] :
            \A i \in 1..Len(measurements) : r[i] \in Outcomes(i)}

----------------------------------------------------------------------------
(* MedicalGrowthCalculator *)

WHO_AGE_LIMIT == 600        \* 60 months

\* measurement_type.lower(), for the names asked
LowerName(measurement_type) ==
    CASE measurement_type = "WFA" -> "wfa"
      [] OTHER -> measurement_type

\* The pygrowup method _calculate_who_z_score picks, or "unknown".
WhoMetric(measurement_type, bmi_attr) ==
    LET t == LowerName(measurement_type) IN
    CASE t \in {"weight_for_age", "wfa"} -> "weight_for_age"
      [] t \in {"height_for_age", "length_for_age", "hfa", "lfa"} -> "length_or_height_for_age"
      [] t \in {"weight_for_height", "weight_for_length", "wfh", "wfl"} -> "weight_for_length"
      [] t \in {"head_circumference_for_age", "hcfa"} -> "head_circumference_for_age"
      [] t \in {"bmi_for_age", "bmifa"} /\ bmi_attr -> "bmi_for_age"
      [] OTHER -> "unknown"

\* CdcMetric with weight-for-age as the default of the lookup.
CdcMetricDefaulting(measurement_type) ==
    LET t == LowerName(measurement_type) IN
    CASE t = "height_for_age" -> STATURE_FOR_AGE
      [] t = "length_for_age" -> STATURE_FOR_AGE
      [] t = "weight_for_height" -> WEIGHT_FOR_STATURE
      [] t = "weight_for_length" -> WEIGHT_FOR_STATURE
      [] t = "bmi_for_age" -> BMI_FOR_AGE
      [] t = "head_circumference_for_age" -> HEAD_CIRCUMFERENCE
      [] OTHER -> WEIGHT_FOR_AGE

\* cdc_metric_map.get(measurement_type.lower()), or "unknown" for None
CdcMetric(measurement_type) ==
    LET t == LowerName(measurement_type) IN
    CASE t = "weight_for_age" -> WEIGHT_FOR_AGE
      [] t = "height_for_age" -> STATURE_FOR_AGE
      [] t = "length_for_age" -> STATURE_FOR_AGE
      [] t = "weight_for_height" -> WEIGHT_FOR_STATURE
      [] t = "weight_for_length" -> WEIGHT_FOR_STATURE
      [] t = "bmi_for_age" -> BMI_FOR_AGE
      [] t = "head_circumference_for_age" -> HEAD_CIRCUMFERENCE
      [] OTHER -> "unknown"

ZScoreResult(measurement_type, z, pc, value, age_months, sex, standard, date_recorded) ==
    [kind |-> "ZScoreResult", measurement_type |-> measurement_type,
     z_score |-> z, percentile |-> pc, measurement_value |-> value,
     age_months |-> age_months, sex |-> sex, standard |-> standard,
     date_recorded |-> date_recorded]

\* What pygrowup answers: the class of a z-score, or "raise" when the
\* Observation or its method raises.
WhoAnswers == {"neg", "pos", "raise"}

\* _calculate_who_z_score, given pygrowup's answer
CalculateWhoZScore(measurement_type, value, age_months, sex, height_cm, date_recorded, bmi_attr, answer) ==
    LET metric == WhoMetric(measurement_type, bmi_attr) IN
    IF metric = "unknown" THEN NotFound
    ELSE IF metric = "weight_for_length" /\ IsNone(height_cm) THEN NotFound
    ELSE IF answer = "raise" THEN NotFound
    ELSE ZScoreResult(measurement_type, answer, Percentile(answer), value,
                      age_months, sex, "WHO", date_recorded)

\* What _calculate_cdc_z_score may return.
CalculateCdcZScore(tables, mode, available, measurement_type, value, age_months, sex, height_cm, date_recorded) ==
    LET cdc_metric == CdcMetric(measurement_type)
        cdc_sex == IF sex = "male" THEN MALE ELSE FEMALE
    IN  IF ~available THEN {NotFound}
        ELSE IF cdc_metric = "unknown" THEN {NotFound}
        ELSE { IF r = NotFound THEN NotFound
               ELSE ZScoreResult(measurement_type, r.z_score, r.percentile, value,
                                 age_months, sex, "CDC", date_recorded) :
               r \in GrowthPercentile(tables, mode, cdc_metric, cdc_sex, value,
                                      Some(age_months), height_cm) }

\* Validated without the check of the value.
ValidatedSkipsValue(value, age_months, sex) ==
    /\ ~IsNone(NormalizeSexInput(sex))
    /\ ~(age_months < 0)

\* Input validation of calculate_z_score, lines 106-117.
Validated(value, age_months, sex) ==
    /\ ~IsNone(NormalizeSexInput(sex))
    /\ ~(age_months < 0)
    /\ ~(value <= 0)

\* SelectStandard with the age limit included in the WHO range.
SelectStandardInclusive(age_months, who_available, cdc_ok) ==
    IF age_months <= WHO_AGE_LIMIT /\ who_available THEN "WHO"
    ELSE IF cdc_ok THEN "CDC"
    ELSE "none"

\* The branch of lines 119-125: "WHO", "CDC" or "none".
SelectStandard(age_months, who_available, cdc_ok) ==
    IF age_months < WHO_AGE_LIMIT /\ who_available THEN "WHO"
    ELSE IF cdc_ok THEN "CDC"
    ELSE "none"

\* The standards calculate_z_score delegates to, in order.
Delegations(value, age_months, sex, who_available, cdc_ok) ==
    IF ~Validated(value, age_months, sex) THEN <<>>
    ELSE IF SelectStandard(age_months, who_available, cdc_ok) = "none" THEN <<>>
    ELSE <<SelectStandard(age_months, who_available, cdc_ok)>>

\* The metric identifier the delegate translates the name to: "unknown" when
\* it has none, "none" when nothing was delegated.
MetricUsed(measurement_type, bmi_attr, delegations) ==
    IF delegations = <<>> THEN "none"
    ELSE IF delegations[1] = "WHO" THEN WhoMetric(measurement_type, bmi_attr)
    ELSE CdcMetric(measurement_type)

\* self.cdc_calculator.data when calculate_z_score returns: the CDC branch makes
\* one lookup when the name has a CDC metric.
TablesAfterZScore(tables, who_available, cdc_ok, measurement_type, value, age_months, sex) ==
    IF /\ Delegations(value, age_months, sex, who_available, cdc_ok) = <<"CDC">>
       /\ CdcMetric(measurement_type) # "unknown"
    THEN TablesAfterLookup(tables, CdcMetric(measurement_type),
                           IF Val(NormalizeSexInput(sex)) = "male" THEN MALE ELSE FEMALE)
    ELSE tables

\* CalculateZScoreResults with the CDC calculator tried when WHO returns None.
CalculateZScoreResultsFallingBack(tables, mode, who_available, bmi_attr, cdc_ok, measurement_type, value, age_months, sex, height_cm, date_recorded) ==
    IF ~Validated(value, age_months, sex) THEN {NotFound}
    ELSE
    LET sex_normalized == Val(NormalizeSexInput(sex))
        standard == SelectStandard(age_months, who_available, cdc_ok)
        cdc == CalculateCdcZScore(tables, mode, cdc_ok, measurement_type, value,
                                  age_months, sex_normalized, height_cm, date_recorded)
        who == { CalculateWhoZScore(measurement_type, value, age_months,
                                    sex_normalized, height_cm, date_recorded,
                                    bmi_attr, a) : a \in WhoAnswers }
    IN  CASE standard = "WHO" ->
                (who \ {NotFound}) \cup (IF NotFound \in who THEN cdc ELSE {})
          [] standard = "CDC" -> cdc
          [] OTHER -> {NotFound}

\* What calculate_z_score may return.
CalculateZScoreResults(tables, mode, who_available, bmi_attr, cdc_ok, measurement_type, value, age_months, sex, height_cm, date_recorded) ==
    IF ~Validated(value, age_months, sex) THEN {NotFound}
    ELSE
    LET sex_normalized == Val(NormalizeSexInput(sex))
        standard == SelectStandard(age_months, who_available, cdc_ok)
    IN  CASE standard = "WHO" ->
                { CalculateWhoZScore(measurement_type, value, age_months,
                                     sex_normalized, height_cm, date_recorded,
                                     bmi_attr, a) : a \in WhoAnswers }
          [] standard = "CDC" ->
                CalculateCdcZScore(tables, mode, cdc_ok, measurement_type, value,
                                   age_months, sex_normalized, height_cm, date_recorded)
          [] OTHER -> {NotFound}

----------------------------------------------------------------------------
(* The arguments the operations are called with. *)

Values == {-50, 0, 126, 180}
Ages == {None, Some(240), Some(245), Some(1200)}
Heights == {None, Some(770), Some(775)}
Percentiles == {-5, 0, 1, 50, 99, 100, 120}

SeqsUpTo(S, n) == UNION {[1..k -> S] : k \in 0..n}

BatchItems ==
    { Measurement(Some(1), Some(180), Some(240), None),
      Measurement(Some(2), Some(126), None, Some(775)),
      Measurement(Some(3), Some(180), Some(240), Some(775)),   \* no such sex code
      Measurement(None, Some(180), Some(240), Some(775)),      \* no 'sex' key
      Measurement(Some(1), Some(180), None, None),             \* no coordinate
      Measurement(Some(1), Some(0), Some(600), Some(770)) }    \* zero value

UpperChar(c) ==
    IF \E i \in 1..26 : LowerCase[i] = c
    THEN UpperCase[CHOOSE i \in 1..26 : LowerCase[i] = c] ELSE c
Upper(cs) == [i \in 1..Len(cs) |-> UpperChar(cs[i])]
Capitalize(cs) == [i \in 1..Len(cs) |-> IF i = 1 THEN UpperChar(cs[i]) ELSE cs[i]]
Pad(cs) == <<" ">> \o cs \o <<"\t", "\n">>

SexWords ==
    male_variants \cup female_variants \cup
    { <<"u","n","k","n","o","w","n">>, <<>>, <<"m","a","l","e","s">>,
      <<"m"," ","a","l","e">>, <<"0">>, <<"3">>, <<"1",".","0">>, <<"1","2">> }

SexStrings == UNION {{w, Upper(w), Capitalize(w), Pad(w)} : w \in SexWords}

SexCandidates ==
    { PyNone, PyStrOf(<<>>), PyStrOf(<<" ">>), PyStrOf(<<"m","a","l","e">>),
      PyStrOf(<<"F">>), PyStrOf(<<"u","n","k","n","o","w","n">>), PyInt(0), PyInt(2) }

SexInputs ==
    {PyStrOf(w) : w \in SexStrings} \cup {PyInt(n) : n \in 0..3} \cup {PyNone}
    \cup {PyTuple(c) : c \in SeqsUpTo(SexCandidates, MaxTuple)}
    \cup {PyList(c) : c \in SeqsUpTo(SexCandidates, MaxTuple)}

MeasurementTypes ==
    { "weight_for_age", "wfa", "WFA",
      "height_for_age", "length_for_age", "hfa", "lfa",
      "weight_for_height", "weight_for_length", "wfh", "wfl",
      "head_circumference_for_age", "hcfa", "bmi_for_age", "bmifa",
      "weight" }
ZValues == {-50, 0, 180}
ZAges == {-10, 599, 600}
ZHeights == {None, Some(775)}
ZSexes ==
    { PyStrOf(<<"M">>), PyStrOf(<<"u","n","k","n","o","w","n">>),
      PyTuple(<<PyNone, PyStrOf(<<"g","i","r","l">>)>>) }
NoDate == None

----------------------------------------------------------------------------
(* The state machine: the calculators are constructed, then called. *)

Init ==
    /\ pygrowup_available \in BOOLEAN
    /\ has_bmi_for_age \in BOOLEAN
    /\ (~pygrowup_available => ~has_bmi_for_age)
    /\ cdc_available \in BOOLEAN
    /\ scalar \in {"numpy", "python"}
    /\ data_directory \in DataDirectories
    /\ data = LoadGrowthData(data_directory)
    /\ op = "ready"
    /\ args = <<>>
    /\ result = NotFound
    /\ invoked = <<>>
    /\ metric_used = "none"

get_lms_parameters ==
    /\ op = "ready"
    /\ \E metric \in GrowthMetric, sex \in Sex, age_months \in Ages \ {None},
       height_cm \in Heights :
        /\ op' = "_get_lms_parameters"
        /\ args' = [metric |-> metric, sex |-> sex, age_months |-> age_months,
                    height_cm |-> height_cm]
        /\ result' = GetLmsParameters(data, metric, sex, age_months, height_cm)
        /\ invoked' = <<>>
        /\ metric_used' = "none"
        /\ data' = TablesAfterLookup(data, metric, sex)
        /\ UNCHANGED settings

calculate_growth_percentile ==
    /\ op = "ready"
    /\ \E metric \in GrowthMetric, sex \in Sex, value \in Values, age_months \in Ages,
       height_cm \in Heights :
        /\ op' = "calculate_growth_percentile"
        /\ args' = [metric |-> metric, sex |-> sex, value |-> value,
                    age_months |-> age_months, height_cm |-> height_cm]
        /\ result' \in GrowthPercentile(data, scalar, metric, sex, value,
                                        age_months, height_cm)
        /\ invoked' = <<>>
        /\ metric_used' = "none"
        /\ data' = TablesAfterLookup(data, metric, sex)
        /\ UNCHANGED settings

calculate_value_for_percentile ==
    /\ op = "ready"
    /\ \E metric \in GrowthMetric, sex \in Sex, percentile \in Percentiles,
       age_months \in {None, Some(240), Some(1200)}, height_cm \in {None, Some(775)} :
        /\ op' = "calculate_value_for_percentile"
        /\ args' = [metric |-> metric, sex |-> sex, percentile |-> percentile,
                    age_months |-> age_months, height_cm |-> height_cm]
        /\ result' = ValueForPercentile(data, metric, sex, percentile,
                                        age_months, height_cm)
        /\ invoked' = <<>>
        /\ metric_used' = "none"
        /\ data' = TablesAfterLookup(data, metric, sex)
        /\ UNCHANGED settings

batch_calculate ==
    /\ op = "ready"
    /\ \E measurements \in SeqsUpTo(BatchItems, MaxBatch), metric \in GrowthMetric :
        /\ op' = "batch_calculate"
        /\ args' = [measurements |-> measurements, metric |-> metric]
        /\ \E results \in BatchCalculate(data, scalar, measurements, metric) :
              result' = [kind |-> "list", items |-> results]
        /\ invoked' = <<>>
        /\ metric_used' = "none"
        /\ data' = TablesAfterBatch(data, measurements, metric)
        /\ UNCHANGED settings

normalize_sex_input ==
    /\ op = "ready"
    /\ \E sex \in SexInputs :
        /\ op' = "_normalize_sex_input"
        /\ args' = [sex |-> sex]
        /\ result' = [kind |-> "sex", value |-> NormalizeSexInput(sex)]
        /\ invoked' = <<>>
        /\ metric_used' = "none"
        /\ UNCHANGED config

calculate_z_score ==
    /\ op = "ready"
    /\ \E measurement_type \in MeasurementTypes, value \in ZValues, age_months \in ZAges,
       sex \in ZSexes, height_cm \in ZHeights :
        /\ op' = "calculate_z_score"
        /\ args' = [measurement_type |-> measurement_type, value |-> value,
                    age_months |-> age_months, sex |-> sex, height_cm |-> height_cm,
                    date_recorded |-> NoDate]
        /\ result' \in CalculateZScoreResults(data, scalar, pygrowup_available,
                            has_bmi_for_age, cdc_available, measurement_type, value,
                            age_months, sex, height_cm, NoDate)
        /\ invoked' = Delegations(value, age_months, sex, pygrowup_available,
                                  cdc_available)
        /\ metric_used' = MetricUsed(measurement_type, has_bmi_for_age,
                                     Delegations(value, age_months, sex,
                                                 pygrowup_available, cdc_available))
        /\ data' = TablesAfterZScore(data, pygrowup_available, cdc_available,
                                   measurement_type, value, age_months, sex)
        /\ UNCHANGED settings

\* calculate_z_score has no parameter named standard: a call that passes one
\* raises TypeError before the body runs.
calculate_z_score_standard ==
    /\ op = "ready"
    /\ \E measurement_type \in MeasurementTypes, age_months \in ZAges,
       standard \in GrowthStandard :
        /\ op' = "calculate_z_score(standard=)"
        /\ args' = [measurement_type |-> measurement_type, value |-> 180,
                    age_months |-> age_months, sex |-> PyStrOf(<<"M">>),
                    height_cm |-> None, date_recorded |-> NoDate,
                    standard |-> standard]
        /\ result' = Raised("TypeError")
        /\ invoked' = <<>>
        /\ metric_used' = "none"
        /\ UNCHANGED config

\* The caller takes the result; the calculators are ready for the next call.
return_to_caller ==
    /\ op # "ready"
    /\ op' = "ready"
    /\ args' = <<>>
    /\ result' = NotFound
    /\ invoked' = <<>>
    /\ metric_used' = "none"
    /\ UNCHANGED config

Next ==
    \/ get_lms_parameters
    \/ calculate_growth_percentile
    \/ calculate_value_for_percentile
    \/ batch_calculate
    \/ normalize_sex_input
    \/ calculate_z_score
    \/ calculate_z_score_standard
    \/ return_to_caller

Spec == Init /\ [][Next]_vars

----------------------------------------------------------------------------
(* Properties. *)

ZCall == op = "calculate_z_score"

\* The request passes the validation the specification lists: the sex
\* normalizes, the age is not negative, the value is positive.
PassesValidation ==
    /\ ~IsNone(NormalizeSexInput(args.sex))
    /\ args.age_months >= 0
    /\ args.value > 0

\* C1: a validated request goes to WHO when the age is under 60 months and WHO
\* is available; otherwise to CDC when CDC is available; otherwise the call fails
\* with nothing delegated.  A returned ZScoreResult names the standard that was
\* taken.
C1_StandardSelection ==
    (ZCall /\ PassesValidation) =>
        LET who == args.age_months < 600 /\ pygrowup_available IN
        /\ who => invoked = <<"WHO">>
        /\ (~who /\ cdc_available) => invoked = <<"CDC">>
        /\ (~who /\ ~cdc_available) => (invoked = <<>> /\ result = NotFound)
        /\ result.kind = "ZScoreResult" => invoked = <<result.standard>>

\* C1 at the limit: 60.0 months with both standards available gives a CDC result.
C1_Witness ==
    /\ ZCall /\ PassesValidation
    /\ args.age_months = 600 /\ pygrowup_available /\ cdc_available
    /\ result.kind = "ZScoreResult" /\ result.standard = "CDC"

\* C2: a call that names a standard is served by it: a forced WHO or CDC is used
\* whatever the age (failing only if it is unavailable), AUTO follows the age.
C2_SelectorHonoured ==
    op = "calculate_z_score(standard=)" =>
        /\ result.kind # "raise"
        /\ (args.standard = "CDC" /\ cdc_available) => invoked = <<"CDC">>
        /\ (args.standard = "WHO" /\ pygrowup_available) => invoked = <<"WHO">>
        /\ (args.standard = "AUTO" /\ args.age_months < 600 /\ pygrowup_available)
              => invoked = <<"WHO">>

\* C3: a request with a negative age, a value that is not positive or a sex that
\* does not normalize fails, and neither standard is invoked for it.
C3_ValidationBeforeDelegation ==
    (ZCall /\ (args.age_months < 0 \/ args.value <= 0
               \/ IsNone(NormalizeSexInput(args.sex)))) =>
        (result = NotFound /\ invoked = <<>>)

\* C3 where only the value is wrong and both standards could have served.
C3_Witness ==
    /\ ZCall /\ args.value <= 0 /\ args.age_months >= 0
    /\ ~IsNone(NormalizeSexInput(args.sex))
    /\ pygrowup_available /\ cdc_available
    /\ result = NotFound /\ invoked = <<>>

MaleWords ==
    { <<"m","a","l","e">>, <<"m">>, <<"b","o","y">>,
      <<"m","a","s","c","u","l","i","n","e">>, <<"1">> }
FemaleWords ==
    { <<"f","e","m","a","l","e">>, <<"f">>, <<"g","i","r","l">>,
      <<"f","e","m","i","n","i","n","e">>, <<"2">> }

\* An empty candidate: falsy (None, '', 0) or blank.
IsFalsyOrBlank(item) == ~Truthy(item) \/ Strip(PyStr(item)) = <<>>

\* What an input normalizes to when the containers in kinds are sequences of
\* candidates: the first non-empty candidate (or the input itself), trimmed and
\* lower-cased, is looked up in the two word lists.
ExpectedSex(x, kinds) ==
    LET isSeq == x.t \in kinds
        has == isSeq /\ \E i \in 1..Len(x.items) : ~IsFalsyOrBlank(x.items[i])
        k == CHOOSE i \in 1..Len(x.items) :
                /\ ~IsFalsyOrBlank(x.items[i])
                /\ \A j \in 1..(i - 1) : IsFalsyOrBlank(x.items[j])
        text == Lower(Strip(PyStr(IF isSeq THEN x.items[k] ELSE x)))
    IN  IF isSeq /\ ~has THEN None
        ELSE IF text \in MaleWords THEN Some("male")
        ELSE IF text \in FemaleWords THEN Some("female")
        ELSE None

\* C4 as stated: the input, or the first non-empty candidate of a sequence
\* (tuple or list), normalizes to male or female exactly when, trimmed and
\* lower-cased, it is one of the listed words, and fails otherwise.
C4_SexNormalization_AnySequence ==
    op = "_normalize_sex_input" =>
        result.value = ExpectedSex(args.sex, {"tuple", "list"})

\* C4 amended: as C4, with the candidates taken from a tuple only: any other
\* container, a list included, is converted to text whole and fails.
C4_SexNormalization ==
    op = "_normalize_sex_input" =>
        result.value = ExpectedSex(args.sex, {"tuple"})

\* C4 on a tuple whose first candidate is passed over.
C4_Witness ==
    /\ op = "_normalize_sex_input"
    /\ args.sex.t = "tuple" /\ Len(args.sex.items) = 2
    /\ args.sex.items[1] = PyNone
    /\ result.value = Some("female")

SpecNames ==
    { "weight_for_age", "wfa", "height_for_age", "hfa", "lfa", "bmi_for_age",
      "weight_for_height", "weight_for_length", "head_circumference_for_age" }
FullName(t) ==
    CASE t = "wfa" -> "weight_for_age"
      [] t \in {"hfa", "lfa"} -> "height_for_age"
      [] t = "weight_for_length" -> "weight_for_height"
      [] OTHER -> t

\* C5: each generic name of the specification is translated to a metric of the
\* standard the request goes to, an alias to the metric of the name it
\* abbreviates.
C5_GenericNamesTranslated ==
    (ZCall /\ invoked # <<>> /\ args.measurement_type \in SpecNames) =>
        /\ metric_used # "unknown"
        /\ metric_used = MetricUsed(FullName(args.measurement_type),
                                    has_bmi_for_age, invoked)

WhoNames ==
    { "weight_for_age", "wfa", "height_for_age", "length_for_age", "hfa", "lfa",
      "weight_for_height", "weight_for_length", "wfh", "wfl",
      "head_circumference_for_age", "hcfa", "bmi_for_age", "bmifa" }
CdcNames ==
    { "weight_for_age", "height_for_age", "length_for_age", "weight_for_height",
      "weight_for_length", "bmi_for_age", "head_circumference_for_age" }

\* C6: a measurement type the standard taken does not know yields a failure:
\* it is translated to no metric and no ZScoreResult is returned.
C6_UnknownTypeFails ==
    ZCall =>
        /\ (invoked = <<"WHO">> /\ LowerName(args.measurement_type) \notin WhoNames)
              => (metric_used = "unknown" /\ result = NotFound)
        /\ (invoked = <<"CDC">> /\ LowerName(args.measurement_type) \notin CdcNames)
              => (metric_used = "unknown" /\ result = NotFound)
        /\ metric_used = "unknown" => result = NotFound

\* C6 for a name neither standard knows, with tables loaded.
C6_Witness ==
    /\ ZCall /\ args.measurement_type = "weight" /\ invoked = <<"CDC">>
    /\ data[WEIGHT_FOR_AGE] # <<>>
    /\ metric_used = "unknown" /\ result = NotFound

\* The rows of the table of the call's metric that have its sex, and the
\* coordinate the specification names for the metric.
RowsOfCall == LET OfSex(row) == row.Sex = args.sex IN SelectSeq(data[args.metric], OfSex)
QueryOfCall ==
    IF args.metric = WEIGHT_FOR_STATURE THEN args.height_cm ELSE args.age_months
\* Row i is nearest to q, and no row before it is as near.
FirstNearest(rows, i, q) ==
    /\ \A j \in 1..Len(rows) : Abs(rows[i].Agemos - q) <= Abs(rows[j].Agemos - q)
    /\ \A j \in 1..(i - 1) : Abs(rows[j].Agemos - q) > Abs(rows[i].Agemos - q)

\* C7: where the table has rows of the sex, the L, M, S returned are those of a
\* row of that sex at the least absolute distance from the query, the first such
\* row in table order; a query that is tabulated returns its own row.
C7_NearestRow ==
    (op = "_get_lms_parameters" /\ RowsOfCall # <<>> /\ ~IsNone(QueryOfCall)) =>
        /\ result.kind = "lms"
        /\ \E i \in 1..Len(RowsOfCall) :
              /\ FirstNearest(RowsOfCall, i, Val(QueryOfCall))
              /\ result.L = RowsOfCall[i].L
              /\ result.M = RowsOfCall[i].M
              /\ result.S = RowsOfCall[i].S
              /\ (\E j \in 1..Len(RowsOfCall) : RowsOfCall[j].Agemos = Val(QueryOfCall))
                    => RowsOfCall[i].Agemos = Val(QueryOfCall)

\* C7 on a tie in a table that is not in coordinate order: 77.5 cm between the
\* rows of 78.0 cm (first) and 77.0 cm.
C7_Witness ==
    /\ op = "_get_lms_parameters" /\ args.metric = WEIGHT_FOR_STATURE
    /\ args.height_cm = Some(775)
    /\ Len(RowsOfCall) >= 2
    /\ RowsOfCall[1].Agemos = 780 /\ RowsOfCall[2].Agemos = 770
    /\ result.kind = "lms" /\ result.M = RowsOfCall[1].M

\* C8: calculate_growth_percentile and calculate_value_for_percentile look the
\* row up by height_cm for weight-for-stature and by age_months for every other
\* metric, the other coordinate having no effect; they return not-found, and
\* never raise, when that coordinate is missing, the table is empty or it has no
\* row of the sex.
C8_CoordinateSelection ==
    op \in {"calculate_growth_percentile", "calculate_value_for_percentile"} =>
        /\ result.kind # "raise"
        /\ (IsNone(QueryOfCall) \/ data[args.metric] = <<>> \/ RowsOfCall = <<>>)
              => result = NotFound
        /\ result.kind = "GrowthResult" =>
              \E i \in 1..Len(RowsOfCall) :
                  /\ FirstNearest(RowsOfCall, i, Val(QueryOfCall))
                  /\ result.reference_value = RowsOfCall[i].M
        /\ op = "calculate_value_for_percentile" =>
              result = ValueForPercentile(data, args.metric, args.sex, args.percentile,
                          IF args.metric = WEIGHT_FOR_STATURE THEN None ELSE args.age_months,
                          IF args.metric = WEIGHT_FOR_STATURE THEN args.height_cm ELSE None)

\* C8 for weight-for-stature with an age and a height that select different rows.
C8_Witness ==
    /\ op = "calculate_growth_percentile" /\ args.metric = WEIGHT_FOR_STATURE
    /\ args.age_months = Some(1200) /\ args.height_cm = Some(770)
    /\ Len(RowsOfCall) >= 2 /\ RowsOfCall[1].Agemos = 780
    /\ result.kind = "GrowthResult" /\ result.reference_value = RowsOfCall[2].M

\* The measurement cannot be handed to calculate_growth_percentile: it has no
\* 'sex' or 'value' key, or its sex is no sex code.
ItemFails(m) == IsNone(m.sex) \/ IsNone(m.value) \/ Val(m.sex) \notin {1, 2}

\* C9: batch_calculate returns a list as long as its input, whose i-th entry is
\* what calculate_growth_percentile returns for the i-th measurement alone, and
\* not-found where the measurement cannot be handed to it.
C9_BatchIsolation ==
    op = "batch_calculate" =>
        /\ Len(result.items) = Len(args.measurements)
        /\ \A i \in 1..Len(args.measurements) :
              LET m == args.measurements[i] IN
              IF ItemFails(m) THEN result.items[i] = NotFound
              ELSE /\ result.items[i] \in
                        GrowthPercentile(data, scalar, args.metric, Val(m.sex),
                                         Val(m.value), m.age_months, m.height_cm)
                   /\ IsNone(IF args.metric = WEIGHT_FOR_STATURE
                             THEN m.height_cm ELSE m.age_months)
                         => result.items[i] = NotFound

\* C9 for a bad record followed by a good one.
C9_Witness ==
    /\ op = "batch_calculate" /\ Len(args.measurements) = 2
    /\ ItemFails(args.measurements[1])
    /\ result.items[1] = NotFound
    /\ result.items[2].kind = "GrowthResult"

\* C10: calculate_growth_percentile fails whenever the value is not positive or
\* the M of the matched row is not positive, for L = 0 and for L # 0.
C10_NonPositiveOperandsFail ==
    op = "calculate_growth_percentile" =>
        LET lms == GetLmsParameters(data, args.metric, args.sex, args.age_months,
                                    args.height_cm)
        IN  (lms.kind = "lms" /\ (args.value <= 0 \/ lms.M <= 0)) => result = NotFound

\* The row calculate_value_for_percentile matched for its call.
LmsOfCall ==
    GetLmsParameters(data, args.metric, args.sex, args.age_months, args.height_cm)
\* The percentile of the call is outside the open interval (0, 100).
OutsideOpenInterval == args.percentile <= 0 \/ args.percentile >= 100
\* L # 0 and L*S*z + 1 <= 0 for the z of a percentile inside the interval
\* (L in tenths, S in thousandths, z in hundredths).
NonRealBase ==
    /\ ~OutsideOpenInterval
    /\ LmsOfCall.L # 0
    /\ LmsOfCall.L * LmsOfCall.S * Ppf(args.percentile) + 1000000 <= 0

\* C11: calculate_value_for_percentile returns not-found, and no number,
\* infinity or NaN, when the percentile is outside (0, 100), its ends included,
\* and when L # 0 and L*S*z + 1 <= 0 for the z of the percentile.
C11_InverseDomainFails ==
    (op = "calculate_value_for_percentile" /\ LmsOfCall.kind = "lms"
        /\ (OutsideOpenInterval \/ NonRealBase)) => result = NotFound

\* The classes of a percentile that is a number of [0, 100], and of a z-score
\* that is a number (an infinite one is let through).
PercentileInRange == {"0", "[0,50)", "50", "(50,100]", "100"}
NumericZ == {"neg", "zero", "pos", "inf", "-inf"}

\* C12: every GrowthResult calculate_growth_percentile returns has a percentile
\* and a z-score that are numbers, the percentile within [0, 100]; and a
\* positive value with the coordinate of the metric, on a table with rows of the
\* sex, has a GrowthResult.
C12_ResultPopulated ==
    op = "calculate_growth_percentile" =>
        /\ result.kind = "GrowthResult" =>
              /\ result.percentile \in PercentileInRange
              /\ result.z_score \in NumericZ
        /\ (args.value > 0 /\ ~IsNone(QueryOfCall) /\ RowsOfCall # <<>>) =>
              result.kind = "GrowthResult"

\* The source of a metric, and the columns it has once the height column of
\* weight-for-stature goes by the name of the independent variable.
SourceOf(m) == data_directory[file_mappings[m]]
SourceColumns(m) ==
    IF m = WEIGHT_FOR_STATURE /\ "Height" \in SourceOf(m).cols
                              /\ "Agemos" \notin SourceOf(m).cols
    THEN (SourceOf(m).cols \ {"Height"}) \cup {"Agemos"}
    ELSE SourceOf(m).cols
\* The source is missing or unreadable, or lacks a required column.
SourceBad(m) ==
    \/ ~SourceOf(m).exists
    \/ ~({"Sex", "Agemos", "L", "M", "S"} \subseteq SourceColumns(m))
\* The directory with every source but that of m replaced by a sound one.
WithOnly(m) ==
    [f \in DOMAIN data_directory |->
        IF f = file_mappings[m] THEN data_directory[f] ELSE GoodDir[f]]

\* C13: the constructor gives every metric a table whatever the sources are;
\* the table of a metric whose source is missing, unreadable or lacks a required
\* column is empty and every lookup for the metric returns not-found; the table
\* of any other metric is what it is when all the other sources are sound.
C13_DegradesByMetric ==
    /\ DOMAIN data = GrowthMetric
    /\ \A m \in GrowthMetric :
          /\ SourceBad(m) => data[m] = <<>>
          /\ ~SourceBad(m) => data[m] = LoadGrowthData(WithOnly(m))[m]
    /\ (op \in {"_get_lms_parameters", "calculate_growth_percentile",
                "calculate_value_for_percentile"} /\ SourceBad(args.metric))
          => result = NotFound
    /\ (op = "batch_calculate" /\ SourceBad(args.metric))
          => \A i \in 1..Len(result.items) : result.items[i] = NotFound

\* C13 where the first source is missing and a later metric answers.
C13_Witness ==
    /\ SourceBad(WEIGHT_FOR_AGE) /\ SourceBad(STATURE_FOR_AGE)
    /\ data[WEIGHT_FOR_AGE] = <<>>
    /\ op = "calculate_growth_percentile" /\ args.metric = WEIGHT_FOR_STATURE
    /\ result.kind = "GrowthResult"

\* The tables as the constructor left them.
TablesAtConstruction == LoadGrowthData(data_directory)

C15_RowsWellFormed ==
    op = "_get_lms_parameters" =>
        /\ \A i \in 1..Len(data[args.metric]) :
              LET row == data[args.metric][i] IN
              /\ {row.Sex, row.Agemos, row.L} \subseteq Int
              /\ row.M > 0
              /\ row.S > 0
        /\ result.kind = "lms" => (result.M > 0 /\ result.S > 0)

\* The WHO computation of the call cannot succeed: the name is unknown to WHO,
\* or it is a weight-for-height without a height.
WhoCannotCompute ==
    \/ LowerName(args.measurement_type) \notin WhoNames
    \/ LowerName(args.measurement_type) \in {"bmi_for_age", "bmifa"} /\ ~has_bmi_for_age
    \/ /\ LowerName(args.measurement_type) \in
             {"weight_for_height", "weight_for_length", "wfh", "wfl"}
       /\ IsNone(args.height_cm)

\* C16: a call invokes at most one standard; a validated request under 60
\* months with WHO available invokes WHO and never CDC: what it returns is a WHO
\* result or a failure, and a failure whenever the WHO computation cannot
\* succeed, CDC being available or not.
C16_NoFallback ==
    ZCall =>
        /\ Len(invoked) <= 1
        /\ (PassesValidation /\ args.age_months < 600 /\ pygrowup_available) =>
              /\ invoked = <<"WHO">>
              /\ result = NotFound
                    \/ (result.kind = "ZScoreResult" /\ result.standard = "WHO")
              /\ WhoCannotCompute => result = NotFound

\* C16 for a BMI-for-age that the installed WHO collaborator cannot compute
\* while the CDC calculator is available with a BMI table.
C16_Witness ==
    /\ ZCall /\ PassesValidation
    /\ args.age_months < 600 /\ pygrowup_available /\ cdc_available
    /\ args.measurement_type = "bmi_for_age" /\ ~has_bmi_for_age
    /\ SexData(data[BMI_FOR_AGE], MALE) # <<>>
    /\ invoked = <<"WHO">> /\ result = NotFound

====
